---- MODULE Spec2Model ----
(***************************************************************************)
(* Model of the TF-IDF task inference script of timesheet-helpers          *)
(* (src/summarize.ts, second half): the tokenizer extract_words, the       *)
(* training loop that fills word_entries, the IDF pass, and the inference  *)
(* loop that prints the probable tasks of every unlabeled row.             *)
(*                                                                         *)
(* A JavaScript string is a sequence of one-character strings; a task name *)
(* is only compared and tested for emptiness, so it stays a TLA+ string.   *)
(* A JavaScript Map or Set is a sequence of <<key, value>> pairs (of keys) *)
(* in insertion order, which is the order the code iterates it in.         *)
(* A JavaScript number that may be fractional is an exact rational         *)
(* <<numerator, denominator>> in lowest terms; Math.log is a table of      *)
(* natural logarithms rounded to four decimals.  Rounding of IEEE doubles  *)
(* is not modelled.                                                        *)
(***************************************************************************)
EXTENDS Integers, Sequences, FiniteSets, TLC

VARIABLES rows, word_entries, total_remarks, pc, i, words, out

vars == <<rows, word_entries, total_remarks, pc, i, words, out>>

\* ------------------------------------------------------------------------
\* Bounds of the model
\* ------------------------------------------------------------------------
\* rows of the log sheet (specification Spec)
MaxRows == 3

\* characters of the remark (specification SpecTokenizer)
MaxChars == 5

\* labeled rows, each with a task of its own (specification SpecReport)
NumReportTasks == 6

\* ------------------------------------------------------------------------
\* Generic helpers
\* ------------------------------------------------------------------------
Range(s) == {s[j] : j \in DOMAIN s}

SeqsUpTo(S, n) == UNION {[1..k -> S] : k \in 0..n}

Min(a, b) == IF a < b THEN a ELSE b

Abs(a) == IF a < 0 THEN -a ELSE a

RECURSIVE GCD(_, _)
GCD(a, b) == IF b = 0 THEN a ELSE GCD(b, a % b)

\* ------------------------------------------------------------------------
\* Numbers: exact rationals <<n, d>> with d > 0, in lowest terms
\* ------------------------------------------------------------------------
Rat(n, d) == IF n = 0 THEN <<0, 1>>
             ELSE LET g == GCD(Abs(n), d) IN <<n \div g, d \div g>>

RatZero == <<0, 1>>

RatOne == <<1, 1>>

RatAdd(p, q) ==
  LET g == GCD(p[2], q[2])
  IN  Rat(p[1] * (q[2] \div g) + q[1] * (p[2] \div g), (p[2] \div g) * q[2])

RatMul(p, q) ==
  IF p[1] = 0 \/ q[1] = 0 THEN RatZero
  ELSE LET g1 == GCD(Abs(p[1]), q[2])
           g2 == GCD(Abs(q[1]), p[2])
       IN  Rat((p[1] \div g1) * (q[1] \div g2), (p[2] \div g2) * (q[2] \div g1))

\* p / q for q > 0
RatDiv(p, q) == RatMul(p, <<q[2], q[1]>>)

RatLess(p, q) ==
  LET g == GCD(p[2], q[2])
  IN  p[1] * (q[2] \div g) < q[1] * (p[2] \div g)

RatLeq(p, q) == ~RatLess(q, p)

RECURSIVE RatSum(_)
RatSum(s) == IF s = <<>> THEN RatZero ELSE RatAdd(s[1], RatSum(Tail(s)))

\* Natural logarithms of 1..8, times 10000; ln 4, ln 6 and ln 8 are the sums
\* of the entries of their factors, so that ln(4/2) = ln 2 as in the code.
LnTable == <<0, 6931, 10986, 13862, 16094, 17917, 19459, 20793>>

\* Math.log(x) for a rational x = n/d >= 1 in lowest terms
MathLog(x) == Rat(LnTable[x[1]] - LnTable[x[2]], 10000)

\* ------------------------------------------------------------------------
\* Map and Set in insertion order
\* ------------------------------------------------------------------------
MapHas(m, k) == \E j \in DOMAIN m : m[j][1] = k

MapGet(m, k) == m[CHOOSE j \in DOMAIN m : m[j][1] = k][2]

MapSet(m, k, v) ==
  IF MapHas(m, k)
  THEN [j \in DOMAIN m |-> IF m[j][1] = k THEN <<k, v>> ELSE m[j]]
  ELSE Append(m, <<k, v>>)

MapKeys(m) == [j \in DOMAIN m |-> m[j][1]]

MapValues(m) == [j \in DOMAIN m |-> m[j][2]]

\* Variant for C4: the first pass runs over words, not over the Set.
NewSetKeepAll(ws) == ws

\* new Set(words): the distinct words in order of first occurrence
RECURSIVE NewSet(_)
NewSet(ws) ==
  IF ws = <<>> THEN <<>>
  ELSE LET front == NewSet(SubSeq(ws, 1, Len(ws) - 1))
           last  == ws[Len(ws)]
       IN  IF last \in Range(front) THEN front ELSE Append(front, last)

\* ------------------------------------------------------------------------
\* Tokenizer
\* ------------------------------------------------------------------------
Whitespace == {" ", "\n", "\t"}

skip_words == { <<"i", "s">>, <<"a", "n">>, <<"t", "h", "e">>, <<"a", "n", "d">>,
                <<"o", "r">>, <<"n", "o", "t">>, <<"o", "f">>, <<"o", "n">>,
                <<"t", "o">> }

symbols == <<"(", ")", "-", ".", ",", "?">>

\* remark.split(/\s+/): the pieces between maximal runs of whitespace; a
\* leading or trailing run leaves an empty piece, and "" splits to [""].
RECURSIVE SplitAt(_, _, _, _)
SplitAt(s, j, cur, acc) ==
  IF j > Len(s) THEN Append(acc, cur)
  ELSE IF s[j] \in Whitespace
       THEN IF j > 1 /\ s[j - 1] \in Whitespace
            THEN SplitAt(s, j + 1, cur, acc)
            ELSE SplitAt(s, j + 1, <<>>, Append(acc, cur))
       ELSE SplitAt(s, j + 1, Append(cur, s[j]), acc)

Split(s) == SplitAt(s, 1, <<>>, <<>>)

\* Variant for C8: word.replace(symbol, ''), which deletes the first
\* occurrence only.
ReplaceFirst(word, symbol) ==
  IF symbol \notin Range(word) THEN word
  ELSE LET k == CHOOSE j \in DOMAIN word :
                  word[j] = symbol /\ \A h \in 1..(j - 1) : word[h] # symbol
       IN  SubSeq(word, 1, k - 1) \o SubSeq(word, k + 1, Len(word))

\* word.replaceAll(symbol, '')
ReplaceAll(word, symbol) == SelectSeq(word, LAMBDA c : c # symbol)

\* for (let symbol of symbols) words = words.map(...)
RECURSIVE StripSymbols(_, _)
StripSymbols(ws, k) ==
  IF k > Len(symbols) THEN ws
  ELSE StripSymbols([j \in DOMAIN ws |-> ReplaceAll(ws[j], symbols[k])], k + 1)

KeepWord(word) == Len(word) > 0 /\ word \notin skip_words

extract_words(remark) == SelectSeq(StripSymbols(Split(remark), 1), KeepWord)

\* ------------------------------------------------------------------------
\* Training
\* ------------------------------------------------------------------------
NewEntry(word) ==
  [word |-> word, total_occurrence |-> 0, document_frequency |-> 0,
   tasks |-> <<>>, idf_score |-> <<>>]

\* FIRST PASS over unique_words: create the entry on first sight, then
\* document_frequency++
RECURSIVE FirstPass(_, _)
FirstPass(entries, unique_words) ==
  IF unique_words = <<>> THEN entries
  ELSE LET word == Head(unique_words)
           e    == IF MapHas(entries, word) THEN MapGet(entries, word)
                   ELSE NewEntry(word)
           e2   == [e EXCEPT !.document_frequency = @ + 1]
       IN  FirstPass(MapSet(entries, word, e2), Tail(unique_words))

\* Variant for C10: tasks.set(task, 1), forgetting the occurrences counted
\* so far.
RECURSIVE SecondPassSetOne(_, _, _)
SecondPassSetOne(entries, ws, task) ==
  IF ws = <<>> THEN entries
  ELSE LET word == Head(ws)
           e    == MapGet(entries, word)
           e2   == [e EXCEPT !.total_occurrence = @ + 1,
                             !.tasks = MapSet(@, task, 1)]
       IN  SecondPassSetOne(MapSet(entries, word, e2), Tail(ws), task)

\* SECOND PASS over words: total_occurrence++ and tasks[task]++
RECURSIVE SecondPass(_, _, _)
SecondPass(entries, ws, task) ==
  IF ws = <<>> THEN entries
  ELSE LET word == Head(ws)
           e    == MapGet(entries, word)
           occ  == IF MapHas(e.tasks, task) THEN MapGet(e.tasks, task) ELSE 0
           e2   == [e EXCEPT !.total_occurrence = @ + 1,
                             !.tasks = MapSet(@, task, occ + 1)]
       IN  SecondPass(MapSet(entries, word, e2), Tail(ws), task)

\* Variant for C7: the smoothed Math.log(1 + total_remarks / document_frequency).
IdfScoreSmoothed(n, df) == MathLog(Rat(n + df, df))

\* entry.idf_score = Math.log(total_remarks / entry.document_frequency)
IdfScore(n, df) == MathLog(Rat(n, df))

IdfPass(entries, n) ==
  [j \in DOMAIN entries |->
     <<entries[j][1],
       [entries[j][2] EXCEPT
          !.idf_score = <<IdfScore(n, entries[j][2].document_frequency)>>]>>]

\* ------------------------------------------------------------------------
\* Inference
\* ------------------------------------------------------------------------
\* STEP 1: wordFreq, word -> number of occurrences in the remark
RECURSIVE WordFreq(_)
WordFreq(ws) ==
  IF ws = <<>> THEN <<>>
  ELSE LET front == WordFreq(SubSeq(ws, 1, Len(ws) - 1))
           word  == ws[Len(ws)]
           freq  == IF MapHas(front, word) THEN MapGet(front, word) ELSE 0
       IN  MapSet(front, word, freq + 1)

\* wordEntry.idf_score || 0
IdfOrZero(entry) == IF entry.idf_score = <<>> THEN RatZero ELSE entry.idf_score[1]

\* the inner loop over wordEntry.tasks
RECURSIVE AddWeighted(_, _, _)
AddWeighted(taskScores, tasks, tfidf) ==
  IF tasks = <<>> THEN taskScores
  ELSE LET taskName      == tasks[1][1]
           weightedScore == RatMul(tfidf, <<tasks[1][2], 1>>)
           currentScore  == IF MapHas(taskScores, taskName)
                            THEN MapGet(taskScores, taskName) ELSE RatZero
       IN  AddWeighted(MapSet(taskScores, taskName,
                              RatAdd(currentScore, weightedScore)),
                       Tail(tasks), tfidf)

\* Variant for C2: an unknown word is scored with a default entry (idf 1,
\* seen once with the empty task) instead of being skipped.
RECURSIVE ScoreWordsDefaultEntry(_, _, _, _)
ScoreWordsDefaultEntry(entries, wordFreq, k, totalWordsInRemark) ==
  IF k = 0 THEN <<>>
  ELSE LET taskScores == ScoreWordsDefaultEntry(entries, wordFreq, k - 1,
                                                totalWordsInRemark)
           word       == wordFreq[k][1]
           tf         == Rat(wordFreq[k][2], totalWordsInRemark)
       IN  IF ~MapHas(entries, word)
           THEN AddWeighted(taskScores, << <<"", 1>> >>, tf)
           ELSE LET wordEntry == MapGet(entries, word)
                IN  AddWeighted(taskScores, wordEntry.tasks,
                                RatMul(tf, IdfOrZero(wordEntry)))

\* STEP 2: the loop over wordFreq.keys()
RECURSIVE ScoreWords(_, _, _, _)
ScoreWords(entries, wordFreq, k, totalWordsInRemark) ==
  IF k = 0 THEN <<>>
  ELSE LET taskScores == ScoreWords(entries, wordFreq, k - 1, totalWordsInRemark)
           word       == wordFreq[k][1]
       IN  IF ~MapHas(entries, word) THEN taskScores
           ELSE LET wordEntry == MapGet(entries, word)
                    tf        == Rat(wordFreq[k][2], totalWordsInRemark)
                    idf       == IdfOrZero(wordEntry)
                    tfidf     == RatMul(tf, idf)
                IN  AddWeighted(taskScores, wordEntry.tasks, tfidf)

TaskScores(entries, ws) ==
  LET wordFreq == WordFreq(ws)
  IN  ScoreWords(entries, wordFreq, Len(wordFreq), Len(ws))

\* Variant for C1: totalScore = score instead of totalScore += score.
TotalScoreLast(taskScores) ==
  IF taskScores = <<>> THEN RatZero ELSE taskScores[Len(taskScores)][2]

TotalScore(taskScores) == RatSum(MapValues(taskScores))

\* STEP 3: score / totalScore when totalScore > 0, else the empty map
Normalize(taskScores) ==
  LET totalScore == TotalScore(taskScores)
  IN  IF RatLess(RatZero, totalScore)
      THEN [j \in DOMAIN taskScores |->
              <<taskScores[j][1], RatDiv(taskScores[j][2], totalScore)>>]
      ELSE <<>>

\* for (let taskName in taskProbabilities): the enumerable string-keyed
\* properties of a Map object; the entries of a Map are not properties.
ForInKeys(map) == <<>>

RECURSIVE DivideKeys(_, _, _)
DivideKeys(probs, keys, totalProbability) ==
  IF keys = <<>> THEN probs
  ELSE DivideKeys(MapSet(probs, Head(keys),
                         RatDiv(MapGet(probs, Head(keys)), totalProbability)),
                  Tail(keys), totalProbability)

\* the second normalization pass
Renormalize(probs) ==
  LET totalProbability == RatSum(MapValues(probs))
  IN  IF RatLess(RatZero, totalProbability)
      THEN DivideKeys(probs, ForInKeys(probs), totalProbability)
      ELSE probs

taskProbabilities(entries, ws) == Renormalize(Normalize(TaskScores(entries, ws)))

\* Variant for C6: the comparator probA - probB.
RECURSIVE InsertSortedAscending(_, _)
InsertSortedAscending(sorted, x) ==
  IF sorted = <<>> THEN <<x>>
  ELSE IF RatLess(x[2], sorted[1][2])
       THEN <<x>> \o sorted
       ELSE <<sorted[1]>> \o InsertSortedAscending(Tail(sorted), x)

\* Array.prototype.sort with the comparator probB - probA: stable, so an
\* element goes after every element whose probability is not smaller.
RECURSIVE InsertSorted(_, _)
InsertSorted(sorted, x) ==
  IF sorted = <<>> THEN <<x>>
  ELSE IF RatLess(sorted[1][2], x[2])
       THEN <<x>> \o sorted
       ELSE <<sorted[1]>> \o InsertSorted(Tail(sorted), x)

RECURSIVE sortedTasks(_)
sortedTasks(probs) ==
  IF probs = <<>> THEN <<>>
  ELSE InsertSorted(sortedTasks(SubSeq(probs, 1, Len(probs) - 1)), probs[Len(probs)])

\* probability >= 0.05, as percent
MinPercent == 5

\* .slice(0, 5)
MaxShown == 5

AtLeastMinimum(entry) == RatLeq(Rat(MinPercent, 100), entry[2])

filteredTasks(probs) ==
  LET kept == SelectSeq(sortedTasks(probs), AtLeastMinimum)
  IN  SubSeq(kept, 1, Min(MaxShown, Len(kept)))

NoTasksMessage == "No tasks meet the criteria."

\* What the console shows for one row: the remark, then one line per
\* filtered task or the message.  The formatting of a percentage by toFixed
\* is not modelled: a line is the pair <<task, probability>>.
Report(entries, remark, ws) ==
  LET probs == taskProbabilities(entries, ws)
      shown == filteredTasks(probs)
  IN  [remark  |-> remark,
       scores  |-> TaskScores(entries, ws),
       probs   |-> probs,
       lines   |-> shown,
       message |-> IF Len(shown) > 0 THEN "" ELSE NoTasksMessage]

\* ------------------------------------------------------------------------
\* Inputs
\* ------------------------------------------------------------------------
Tasks == {"t1", "t2"}

RECURSIVE JoinWords(_)
JoinWords(ws) ==
  IF ws = <<>> THEN <<>>
  ELSE IF Len(ws) = 1 THEN ws[1]
       ELSE ws[1] \o <<" ">> \o JoinWords(Tail(ws))

WordA == <<"a">>

WordB == <<"b">>

\* "", "the of on", "b", "a a", "a b"
Remarks ==
  { <<>>,
    JoinWords(<< <<"t", "h", "e">>, <<"o", "f">>, <<"o", "n">> >>),
    WordB, JoinWords(<<WordA, WordA>>), JoinWords(<<WordA, WordB>>) }

Row(task, remark) == [Task |-> task, Remark |-> remark]

RowSet == {Row(t, r) : t \in Tasks \cup {""}, r \in Remarks}

\* one row whose remark is any string of at most MaxChars characters
Alphabet == {"o", "n", "O", " ", "\n", "-", "."}

TokenizerRows ==
  {<<Row(t, r)>> : t \in {"", "t1"}, r \in SeqsUpTo(Alphabet, MaxChars)}

\* NumReportTasks labeled rows, the k-th with the k-th task name, then one
\* unlabeled row
ReportTaskNames == <<"t1", "t2", "t3", "t4", "t5", "t6", "t7", "t8">>

ReportRemarks == {WordA, WordB, JoinWords(<<WordB, WordB, WordB>>)}

ReportQueries == {JoinWords(<<WordA, WordB>>), WordB, <<"o", "n">>}

ReportRows ==
  {[k \in 1..(NumReportTasks + 1) |->
      IF k <= NumReportTasks THEN Row(ReportTaskNames[k], rs[k]) ELSE Row("", q)] :
     rs \in [1..NumReportTasks -> ReportRemarks], q \in ReportQueries}

\* ------------------------------------------------------------------------
\* The program
\* ------------------------------------------------------------------------
Start(rs) ==
  /\ rows = rs
  /\ word_entries = <<>>
  /\ total_remarks = 0
  /\ pc = "train"
  /\ i = 1
  /\ words = <<>>
  /\ out = <<>>

Init == \E rs \in SeqsUpTo(RowSet, MaxRows) : Start(rs)

\* Variant for C9: total_remarks++ placed before the test of the task.
TrainSkipCounted ==
  /\ pc = "train" /\ i <= Len(rows)
  /\ rows[i].Task = ""
  /\ total_remarks' = total_remarks + 1
  /\ i' = i + 1
  /\ UNCHANGED <<rows, word_entries, pc, words, out>>

\* training loop: if (!task) continue
TrainSkip ==
  /\ pc = "train" /\ i <= Len(rows)
  /\ rows[i].Task = ""
  /\ i' = i + 1
  /\ UNCHANGED <<rows, word_entries, total_remarks, pc, words, out>>

\* training loop: total_remarks++, extract_words, first pass
TrainFirstPass ==
  /\ pc = "train" /\ i <= Len(rows)
  /\ rows[i].Task # ""
  /\ total_remarks' = total_remarks + 1
  /\ words' = extract_words(rows[i].Remark)
  /\ word_entries' = FirstPass(word_entries, NewSet(words'))
  /\ pc' = "second"
  /\ UNCHANGED <<rows, i, out>>

\* training loop: second pass, then the next row
TrainSecondPass ==
  /\ pc = "second"
  /\ word_entries' = SecondPass(word_entries, words, rows[i].Task)
  /\ words' = <<>>
  /\ i' = i + 1
  /\ pc' = "train"
  /\ UNCHANGED <<rows, total_remarks, out>>

\* the loop that pre-calculates the IDF scores
ComputeIdf ==
  /\ pc = "train" /\ i > Len(rows)
  /\ word_entries' = IdfPass(word_entries, total_remarks)
  /\ pc' = "infer"
  /\ i' = 1
  /\ UNCHANGED <<rows, total_remarks, words, out>>

\* inference loop: if (task) continue
InferSkipLabeled ==
  /\ pc = "infer" /\ i <= Len(rows)
  /\ rows[i].Task # ""
  /\ i' = i + 1
  /\ UNCHANGED <<rows, word_entries, total_remarks, pc, words, out>>

\* Variant for C3: the test of words.length is missing.
InferSkipNoWordsLogged ==
  /\ pc = "infer" /\ i <= Len(rows)
  /\ rows[i].Task = ""
  /\ Len(extract_words(rows[i].Remark)) = 0
  /\ out' = Append(out, Report(word_entries, rows[i].Remark, <<>>))
  /\ i' = i + 1
  /\ UNCHANGED <<rows, word_entries, total_remarks, pc, words>>

\* inference loop: if (words.length === 0) continue
InferSkipNoWords ==
  /\ pc = "infer" /\ i <= Len(rows)
  /\ rows[i].Task = ""
  /\ Len(extract_words(rows[i].Remark)) = 0
  /\ i' = i + 1
  /\ UNCHANGED <<rows, word_entries, total_remarks, pc, words, out>>

\* Variant for C5: the inference loop gets or creates the entry of every
\* word of the remark, as the first pass of the training loop does.
InferReportCreatesEntries ==
  /\ pc = "infer" /\ i <= Len(rows)
  /\ rows[i].Task = ""
  /\ LET ws == extract_words(rows[i].Remark)
     IN  /\ Len(ws) # 0
         /\ out' = Append(out, Report(word_entries, rows[i].Remark, ws))
         /\ word_entries' = FirstPass(word_entries, NewSet(ws))
  /\ i' = i + 1
  /\ UNCHANGED <<rows, total_remarks, pc, words>>

\* inference loop: score, normalize, sort, filter and log one row
InferReport ==
  /\ pc = "infer" /\ i <= Len(rows)
  /\ rows[i].Task = ""
  /\ LET ws == extract_words(rows[i].Remark)
     IN  /\ Len(ws) # 0
         /\ out' = Append(out, Report(word_entries, rows[i].Remark, ws))
  /\ i' = i + 1
  /\ UNCHANGED <<rows, word_entries, total_remarks, pc, words>>

\* end of the script
Finish ==
  /\ pc = "infer" /\ i > Len(rows)
  /\ pc' = "done"
  /\ UNCHANGED <<rows, word_entries, total_remarks, i, words, out>>

Next ==
  \/ TrainSkip
  \/ TrainFirstPass
  \/ TrainSecondPass
  \/ ComputeIdf
  \/ InferSkipLabeled
  \/ InferSkipNoWords
  \/ InferReport
  \/ Finish

Spec == Init /\ [][Next]_vars

InitTokenizer == \E rs \in TokenizerRows : Start(rs)

SpecTokenizer == InitTokenizer /\ [][Next]_vars

InitReport == \E rs \in ReportRows : Start(rs)

SpecReport == InitReport /\ [][Next]_vars

\* ------------------------------------------------------------------------
\* Properties
\* ------------------------------------------------------------------------
Reports == Range(out)

Trained == pc \in {"infer", "done"}

Entries == Range(MapValues(word_entries))

LabeledRows == {j \in DOMAIN rows : rows[j].Task # ""}

WordsOfRow(j) == Range(extract_words(rows[j].Remark))

WordsOfRemark(remark) == Range(extract_words(remark))

KnownWords == Range(MapKeys(word_entries))

RECURSIVE SumCounts(_)
SumCounts(tasks) == IF tasks = <<>> THEN 0 ELSE tasks[1][2] + SumCounts(Tail(tasks))

\* C1: the task -> probability map of every reported row is empty, or its
\* values are non-negative, each is the task's raw score divided by the sum
\* of the raw scores, and they sum to 1.
C1_ProbabilitiesSumToOne ==
  \A r \in Reports :
    \/ r.probs = <<>>
    \/ /\ \A j \in DOMAIN r.probs : RatLeq(RatZero, r.probs[j][2])
       /\ RatSum(MapValues(r.probs)) = RatOne
       /\ MapKeys(r.probs) = MapKeys(r.scores)
       /\ \A j \in DOMAIN r.probs :
            RatMul(r.probs[j][2], RatSum(MapValues(r.scores))) = r.scores[j][2]

C1_Witness ==
  \E r \in Reports :
    /\ Len(r.probs) >= 2
    /\ RatLess(RatZero, r.probs[1][2])
    /\ RatLess(r.probs[2][2], r.probs[1][2])

\* C2: a reported remark none of whose words is in the word table has no
\* task score and an empty distribution.
C2_UnknownWordsEmpty ==
  \A r \in Reports :
    (WordsOfRemark(r.remark) \cap KnownWords = {}) =>
      (r.scores = <<>> /\ r.probs = <<>> /\ r.lines = <<>>)

C2_Witness ==
  /\ word_entries # <<>>
  /\ \E r \in Reports : WordsOfRemark(r.remark) \cap KnownWords = {}

\* C3: an unlabeled row whose remark has no words is never reported: every
\* report is of a remark with a word, and at the end there is one report per
\* unlabeled row with a word.
C3_NoWordsNotReported ==
  /\ \A r \in Reports : extract_words(r.remark) # <<>>
  /\ pc = "done" =>
       Len(out) = Cardinality({j \in DOMAIN rows :
                                 rows[j].Task = "" /\ WordsOfRow(j) # {}})

C3_Witness ==
  /\ pc = "done"
  /\ \E j \in DOMAIN rows :
       rows[j].Task = "" /\ rows[j].Remark # <<>> /\ WordsOfRow(j) = {}
  /\ \E j \in DOMAIN rows : rows[j].Task = "" /\ WordsOfRow(j) # {}

\* C4: when the training loop has ended (the IDF pass just done) and when
\* the script ends, the word table holds exactly the words of the labeled
\* rows, and document_frequency of a word is the number of labeled rows
\* whose remark contains it.
C4_DocumentFrequency ==
  ((pc = "infer" /\ i = 1) \/ pc = "done") =>
    LET rowWords == [j \in DOMAIN rows |-> WordsOfRow(j)]
    IN  /\ KnownWords = UNION {rowWords[j] : j \in LabeledRows}
        /\ \A e \in Entries :
             e.document_frequency =
               Cardinality({j \in LabeledRows : e.word \in rowWords[j]})

C4_Witness ==
  /\ Trained
  /\ \E j \in LabeledRows : \E w \in WordsOfRow(j) :
       /\ Len(SelectSeq(extract_words(rows[j].Remark), LAMBDA x : x = w)) = 2
       /\ \E k \in LabeledRows : k # j /\ w \in WordsOfRow(k)
       /\ \E k \in DOMAIN rows : rows[k].Task = "" /\ w \in WordsOfRow(k)

\* C5: once training is over it never resumes and no step changes the word
\* table or total_remarks; two reports of the same remark are identical.
C5_InferenceReadOnly ==
  /\ [][Trained => /\ Trained'
                   /\ word_entries' = word_entries
                   /\ total_remarks' = total_remarks]_vars
  /\ [](\A j, k \in DOMAIN out :
          out[j].remark = out[k].remark => out[j] = out[k])

C5_Witness ==
  /\ pc = "done"
  /\ \E j, k \in DOMAIN out :
       j # k /\ out[j].remark = out[k].remark /\ out[j].scores # <<>>

\* C6: the reported lines are tasks of the distribution with probability at
\* least 0.05, in descending order of probability, at most 5 of them and as
\* many as qualify up to 5; a task left out has no higher probability than a
\* task shown; the message stands for an empty list.
Qualified(r) == {j \in DOMAIN r.probs : RatLeq(<<1, 20>>, r.probs[j][2])}

C7_EmptyIffNoKnownWord ==
  \A r \in Reports :
    (r.probs = <<>>) <=> (WordsOfRemark(r.remark) \cap KnownWords = {})

\* C7 amended: the distribution of a reported remark is empty exactly when
\* every word of it that is in the word table occurs in every labeled
\* remark (document_frequency = total_remarks, so idf_score = 0).
C7_EmptyIffNoRareKnownWord ==
  \A r \in Reports :
    LET ws == WordsOfRemark(r.remark)
    IN  (r.probs = <<>>) <=>
          \A e \in Entries : e.word \in ws => e.document_frequency = total_remarks

C7_Witness ==
  \E r \in Reports :
    /\ r.probs = <<>>
    /\ WordsOfRemark(r.remark) \cap KnownWords # {}
    /\ total_remarks >= 2

\* C8: extract_words returns, in order and with duplicates, the maximal runs
\* of non-whitespace characters of the remark with the characters ( ) - . , ?
\* deleted, less the runs that are then empty or a stop word.
Runs(s) ==
  {p \in (DOMAIN s) \X (DOMAIN s) :
     /\ p[1] <= p[2]
     /\ \A j \in p[1]..p[2] : s[j] \notin {" ", "\n", "\t"}
     /\ p[1] = 1 \/ s[p[1] - 1] \in {" ", "\n", "\t"}
     /\ p[2] = Len(s) \/ s[p[2] + 1] \in {" ", "\n", "\t"}}

Stripped(s, p) ==
  SelectSeq(SubSeq(s, p[1], p[2]), LAMBDA c : c \notin {"(", ")", "-", ".", ",", "?"})

KeptRuns(s) ==
  {p \in Runs(s) : Stripped(s, p) # <<>> /\ Stripped(s, p) \notin skip_words}

RefWords(s) ==
  [k \in 1..Cardinality(KeptRuns(s)) |->
     Stripped(s, CHOOSE p \in KeptRuns(s) :
                   Cardinality({q \in KeptRuns(s) : q[1] < p[1]}) = k - 1)]

C8_ExtractWords ==
  pc = "second" =>
    /\ words = RefWords(rows[i].Remark)
    /\ \A j \in DOMAIN words : words[j] # <<>> /\ words[j] \notin skip_words

C8_Witness ==
  /\ pc = "second"
  /\ Len(words) = 2 /\ words[1] = words[2]
  /\ "-" \in Range(rows[i].Remark)
  /\ "\n" \in Range(rows[i].Remark)

\* C9: after training total_remarks is the number of rows with a task, and
\* every entry has 1 <= document_frequency <= total_remarks and an idf_score
\* that is set and not negative.
C9_TotalRemarksAndIdf ==
  Trained =>
    /\ total_remarks = Cardinality(LabeledRows)
    /\ \A e \in Entries :
         /\ 1 <= e.document_frequency
         /\ e.document_frequency <= total_remarks
         /\ Len(e.idf_score) = 1
         /\ RatLeq(RatZero, e.idf_score[1])
         /\ (e.idf_score[1] = RatZero) <=> (e.document_frequency = total_remarks)

C9_Witness ==
  /\ Trained
  /\ \E j \in LabeledRows : WordsOfRow(j) = {}
  /\ \E j \in DOMAIN rows : rows[j].Task = ""
  /\ \E e \in Entries : RatLess(RatZero, e.idf_score[1])

\* C10: outside the two passes of a row, every entry has document_frequency
\* <= total_occurrence, and total_occurrence is the sum of its task counts.
C10_FrequencyBelowOccurrence ==
  pc # "second" =>
    \A e \in Entries :
      /\ e.document_frequency <= e.total_occurrence
      /\ e.total_occurrence = SumCounts(e.tasks)

C10_Witness ==
  /\ pc = "train" /\ i > 1
  /\ \E e \in Entries :
       /\ e.document_frequency < e.total_occurrence
       /\ Len(e.tasks) = 2

====
